---- MODULE Spec2Model ----
(***************************************************************************)
(* Session multiplexing and process bridging of the MCP hub:               *)
(*   - StdioBridge (child process, id-correlated line protocol),           *)
(*   - the session registries of the HTTP entrypoints,                     *)
(*   - the sticky session paths and the backlog CLI tools.                 *)
(* Each part has its own specification over the shared variables; a        *)
(* specification leaves the variables of the other parts unchanged.        *)
(***************************************************************************)
EXTENDS Integers, Sequences, FiniteSets, TLC

VARIABLES
  process,          \* StdioBridge.process: 0 is null, k > 0 the k-th spawned child
  alive,            \* the spawned children that are still running
  messageId,        \* StdioBridge.messageId
  pendingRequests,  \* StdioBridge.pendingRequests: id -> owner of the resolve callback
  buffer,           \* StdioBridge.buffer
  stdin,            \* the envelopes written to process.stdin, in write order
  pipe,             \* bytes a child has written to stdout, not yet delivered as "data"
  callers,          \* the request() invocations made from outside the bridge
  startPc,          \* the start() invocations, one per spawned child
  lastData,         \* history: the lines and resolve calls of the last stdout chunk
  delivered,        \* history: all bytes delivered as "data" and all resolve calls made
  variant,          \* which HTTP entrypoint runs: "gateway", "http", "dynamic" or "sse"
  sessions,         \* the session registry (a Map): session id -> endpoint
  endpoints,        \* the endpoints created so far: [sid, open], indexed by creation
  uuids,            \* how many ids randomUUID() has handed out
  connecting,       \* gateway handshakes suspended in `await createMcpClient(...)`
  closedIds,        \* history: the session ids whose registry entry was removed
  lastReq,          \* the last HTTP request handled and its response
  inflight,         \* gateway requests suspended in a call of their session's client
  paths,            \* the sticky path store (a Map): session key -> host path
  marker,           \* the working directories that hold a "backlog" directory
  lastCall,         \* the last tool call executed and what it returned
  lastProvided,     \* history: the last non-empty path each session key provided
  providedBy,       \* history: the client session whose call provided that path
  execs,            \* the tool calls suspended in `await execAsync(cmd, { cwd, ... })`
  env,              \* process.env.HOST_ROOT: <<>> when it is not set
  inputPath,        \* the resolver's input
  resolved,         \* the results of resolving it, each resolving the previous one
  val,              \* a string-valued tool argument
  cmdTool,          \* the tool that built the last invocation line, or "none"
  cmd               \* the last invocation line built, as its segments

bridgeVars == <<process, alive, messageId, pendingRequests, buffer, stdin, pipe,
                callers, startPc, lastData, delivered>>

registryVars == <<variant, sessions, endpoints, uuids, connecting, closedIds, lastReq,
                  inflight>>

resolverVars == <<env, inputPath, resolved>>

cmdVars == <<val, cmdTool, cmd>>

toolVars == <<paths, marker, lastCall, lastProvided, providedBy, execs, resolverVars,
              cmdVars>>

vars == <<bridgeVars, registryVars, toolVars>>

-----------------------------------------------------------------------------
(* Bounds of the bridge model *)

NCallers == 2
MaxId == 4
MaxSpawn == 2
MaxPipe == 4

Callers == 1..NCallers
Ids == 1..MaxId
Spawns == 1..MaxSpawn

ToolMethods == {"tools/list", "tools/call"}

-----------------------------------------------------------------------------
(* The child's output: characters, lines and their JSON reading *)

NL == "NL"
Digit == <<"1", "2", "3", "4", "5", "6", "7", "8", "9">>

\* the line the child prints to answer the request with id k: {k}; the closing
\* piece stands for the rest of the object, with a result or with an error
ReplyLine(k) == <<"{", Digit[k], "}">>
ErrorLine(k) == <<"{", Digit[k], "e}">>
\* a character outside ASCII, its two bytes in the child's UTF-8 output, and the
\* replacement character U+FFFD that decoding puts for an incomplete sequence
EACUTE == "eacute"
LeadByte == "C3"
ContByte == "A9"
REPL == "U+FFFD"
\* the characters tried inside a reply's result text
PayloadChars == {EACUTE, REPL}
\* a reply whose result holds the character
PayloadLine(k) == <<"{", Digit[k], EACUTE, "}">>
\* incidental log output, and a blank line
LogLine == <<"x">>
BlankLine == <<" ">>

ChildLines == {ReplyLine(k) : k \in Ids} \cup {LogLine, BlankLine}

\* line.trim()
IsBlank(line) == \A i \in 1..Len(line) : line[i] = " "

\* JSON.parse(line): the message with its id and whether it has an error field,
\* or a SyntaxError
JSONparse(line) ==
  IF /\ Len(line) >= 3
     /\ line[1] = "{"
     /\ line[Len(line)] \in {"}", "e}"}
     /\ \E k \in 1..Len(Digit) : Digit[k] = line[2]
     /\ \A i \in 3..(Len(line) - 1) : line[i] \in PayloadChars
  THEN [ok |-> TRUE, id |-> CHOOSE k \in 1..Len(Digit) : Digit[k] = line[2],
        error |-> line[Len(line)] = "e}", payload |-> SubSeq(line, 3, Len(line) - 1)]
  ELSE [ok |-> FALSE, id |-> 0, error |-> FALSE, payload |-> <<>>]

\* the child's stdout encoding of its text: UTF-8
RECURSIVE utf8(_)
utf8(text) ==
  IF text = <<>> THEN <<>>
  ELSE (IF Head(text) = EACUTE THEN <<LeadByte, ContByte>> ELSE <<Head(text)>>)
       \o utf8(Tail(text))

\* data.toString() of one chunk (a Buffer): every chunk is decoded by itself, so a
\* sequence cut by the end or the start of the chunk decodes to U+FFFD
RECURSIVE toString(_)
toString(data) ==
  IF data = <<>> THEN <<>>
  ELSE IF Head(data) = LeadByte /\ Len(data) >= 2 /\ data[2] = ContByte
  THEN <<EACUTE>> \o toString(SubSeq(data, 3, Len(data)))
  ELSE IF Head(data) \in {LeadByte, ContByte}
  THEN <<REPL>> \o toString(Tail(data))
  ELSE <<Head(data)>> \o toString(Tail(data))

\* a faulty split: the text is not cut at the newlines
splitWhole(s, cur, acc) == <<cur \o s>>

\* buffer.split("\n"): the pieces between the newlines, the last one the tail
RECURSIVE split(_, _, _)
split(s, cur, acc) ==
  IF s = <<>> THEN Append(acc, cur)
  ELSE IF Head(s) = NL THEN split(Tail(s), <<>>, Append(acc, cur))
  ELSE split(Tail(s), Append(cur, Head(s)), acc)

-----------------------------------------------------------------------------
(* StdioBridge *)

\* the params of the handshake envelopes and of tools/list carry no tool
NoParams == [name |-> "", arguments |-> ""]

\* a faulty execute: the error field is not looked at
toolResultIgnoresError(res) == "returned"

\* execute of a synthesized tool after the reply: if (res.error) throw new
\* Error(res.error.message); return res.result
toolResult(res) == IF res.error THEN "raised" ELSE "returned"

\* listTools() after the reply: return res.result?.tools || []
listResult(res) == IF res.error THEN "noTools" ELSE "tools"

\* no chunk processed yet
NoData == [lines |-> <<>>, dels |-> <<>>]
NoDelivery == [bytes |-> <<>>, dels |-> <<>>]

\* owners of resolve callbacks: a caller c is c, the start() of child k is -k
StartOwner(k) == 0 - k

\* a faulty counter: the id is handed out but the counter does not advance
NextMessageIdStuck(m) == m

\* const id = this.messageId++
NextMessageId(m) == m + 1

\* a faulty lookup: the oldest pending call, whatever id the reply carries
PendingGetFirst(pend, id) ==
  IF DOMAIN pend = {} THEN 0
  ELSE pend[CHOOSE k \in DOMAIN pend : \A j \in DOMAIN pend : k <= j]

\* this.pendingRequests.get(message.id): the owner, or 0 for undefined
PendingGet(pend, id) == IF id \in DOMAIN pend THEN pend[id] ELSE 0

\* a faulty delete: the callback stays registered
PendingDeleteKeeps(pend, id) == pend

\* this.pendingRequests.delete(id)
PendingDelete(pend, id) == [k \in DOMAIN pend \ {id} |-> pend[k]]

\* a faulty loop: it stops at the first line that is not a message
RECURSIVE processLinesAborts(_, _)
processLinesAborts(lines, st) ==
  IF lines = <<>> THEN st
  ELSE LET line == Head(lines)
           msg == JSONparse(line)
           owner == PendingGet(st.pend, msg.id)
       IN IF IsBlank(line) \/ ~msg.ok THEN st
          ELSE IF owner = 0 THEN processLinesAborts(Tail(lines), st)
          ELSE processLinesAborts(Tail(lines),
                 [pend |-> PendingDelete(st.pend, msg.id),
                  dels |-> Append(st.dels, <<owner, msg.id, msg.error, msg.payload>>)])

\* the for loop of processBuffer over the complete lines; st = [pend, dels]
RECURSIVE processLines(_, _)
processLines(lines, st) ==
  IF lines = <<>> THEN st
  ELSE LET line == Head(lines)
           msg == JSONparse(line)
           owner == PendingGet(st.pend, msg.id)
       IN IF IsBlank(line) \/ ~msg.ok \/ owner = 0
          THEN processLines(Tail(lines), st)
          ELSE processLines(Tail(lines),
                 [pend |-> PendingDelete(st.pend, msg.id),
                  dels |-> Append(st.dels, <<owner, msg.id, msg.error, msg.payload>>)])

\* processBuffer(): the new buffer, pending map and the resolve calls made
processBuffer(buf, pend) ==
  LET lines == split(buf, <<>>, <<>>)
      done == processLines(SubSeq(lines, 1, Len(lines) - 1),
                           [pend |-> pend, dels |-> <<>>])
  IN [buffer |-> lines[Len(lines)], pend |-> done.pend, dels |-> done.dels]

\* JSON.stringify({ jsonrpc: "2.0", id, method, params }): the text of an envelope,
\* the id between the braces standing for the whole object
JSONstringify(msg) == <<"{", Digit[msg.id], "}">>

\* a faulty request text: the newline is missing
requestTextBare(msg) == JSONstringify(msg)

\* const request = JSON.stringify({ ... }) + "\n"
requestText(msg) == JSONstringify(msg) \o <<NL>>

\* the characters child k has been written on its stdin: one stdin.write(request)
\* per envelope, in the order of the calls of write
RECURSIVE Written(_, _)
Written(envs, k) ==
  IF envs = <<>> THEN <<>>
  ELSE (IF Head(envs).process = k THEN requestText(Head(envs)) ELSE <<>>)
       \o Written(Tail(envs), k)

\* the synchronous body of request() after the lazy start, on b = [messageId, pend,
\* stdin]: const id = this.messageId++; pendingRequests.set(id, resolve); stdin.write.
\* Each envelope is recorded with the child it went to and whether that child was
\* running when it was written.
send(b, owner, method, params, proc) ==
  [messageId |-> NextMessageId(b.messageId),
   pend |-> (b.messageId :> owner) @@ b.pend,
   stdin |-> Append(b.stdin, [id |-> b.messageId, method |-> method, params |-> params,
                              process |-> proc,
                              live |-> proc \in alive \/ proc > process])]

Bridge == [messageId |-> messageId, pend |-> pendingRequests, stdin |-> stdin]

SetBridge(b) ==
  /\ messageId' = b.messageId
  /\ pendingRequests' = b.pend
  /\ stdin' = b.stdin

\* the ids that suspended start() and request() invocations will still allocate
Reserved ==
  Cardinality({k \in Spawns : startPc[k] = "awaitInit"})
  + Cardinality({c \in Callers : callers[c].pc = "awaitStart"})

\* start() up to its first suspension: spawn, handlers, request("initialize")
StartBegin ==
  /\ process < MaxSpawn
  /\ process' = process + 1
  /\ alive' = alive \cup {process + 1}
  /\ SetBridge(send(Bridge, StartOwner(process + 1), "initialize", NoParams,
                    process + 1))
  /\ startPc' = [startPc EXCEPT ![process + 1] = "awaitInit"]

\* a call of start() from outside the bridge
Start ==
  /\ messageId + Reserved + 1 <= MaxId
  /\ StartBegin
  /\ UNCHANGED <<buffer, pipe, callers>>

\* a caller that has not called yet
Idle == [pc |-> "idle", method |-> "", params |-> NoParams, id |-> 0, got |-> 0,
         start |-> 0, err |-> FALSE, out |-> "none", cached |-> FALSE]

\* history: a listTools() call has returned the child's tool list
ListReturned ==
  \E d \in Callers : /\ callers[d].method = "tools/list"
                      /\ callers[d].pc = "resolved"
                      /\ callers[d].out = "tools"

\* request(method, params) called from outside, up to its first suspension
Request(c, method, params) ==
  /\ callers[c].pc = "idle"
  \* callers are interchangeable: they are numbered in the order of their calls
  /\ \A d \in Callers : d < c => callers[d].pc # "idle"
  /\ IF process = 0
     THEN /\ messageId + Reserved + 2 <= MaxId
          /\ StartBegin
          /\ callers' = [callers EXCEPT ![c] =
                [Idle EXCEPT !.pc = "awaitStart", !.method = method,
                             !.params = params, !.start = process + 1,
                             !.cached = ListReturned]]
     ELSE /\ messageId + Reserved <= MaxId
          /\ SetBridge(send(Bridge, c, method, params, process))
          /\ callers' = [callers EXCEPT ![c] =
                [Idle EXCEPT !.pc = "pending", !.method = method,
                             !.params = params, !.id = messageId,
                             !.cached = ListReturned]]
          /\ UNCHANGED <<process, alive, startPc>>
  /\ UNCHANGED <<buffer, pipe>>

\* the continuations of start() that the resolve calls of one chunk wake, in the
\* order of the resolve calls: after "initialize", request("notifications/initialized")
RECURSIVE startsResumed(_, _)
startsResumed(dels, b) ==
  IF dels = <<>> THEN b
  ELSE LET o == Head(dels)[1]
       IN IF o < 0 /\ startPc[0 - o] = "awaitInit"
          THEN startsResumed(Tail(dels),
                 send(b, o, "notifications/initialized", NoParams, process))
          ELSE startsResumed(Tail(dels), b)

\* a faulty start: it resolves on the first reply it is given
StartsDoneEarly(dels) ==
  {k \in Spawns : /\ startPc[k] \in {"awaitInit", "awaitNotif"}
                  /\ \E i \in 1..Len(dels) : dels[i][1] = StartOwner(k)}

\* the start() invocations whose promise resolves: the notification was answered
StartsDone(dels) ==
  {k \in Spawns : /\ startPc[k] = "awaitNotif"
                  /\ \E i \in 1..Len(dels) : dels[i][1] = StartOwner(k)}

\* the request() invocations resumed after `await this.start()`; st = [b, ids]
RECURSIVE requestsResumed(_, _)
requestsResumed(cs, st) ==
  IF cs = {} THEN st
  ELSE LET c == CHOOSE x \in cs : \A y \in cs : x <= y
       IN requestsResumed(cs \ {c},
            [b |-> send(st.b, c, callers[c].method, callers[c].params, process),
             ids |-> (c :> st.b.messageId) @@ st.ids])

\* the stdout "data" handler on a chunk of n bytes: buffer += data; processBuffer();
\* then the continuations of the promises it resolved
StdoutData(n) ==
  /\ n \in 1..Len(pipe)
  /\ \E r \in {processBuffer(buffer \o toString(SubSeq(pipe, 1, n)),
                              pendingRequests)} :
       LET got(o) == {i \in 1..Len(r.dels) : r.dels[i][1] = o}
           msgId(o) == r.dels[CHOOSE i \in got(o) : TRUE][2]
           res(o) == [error |-> r.dels[CHOOSE i \in got(o) : TRUE][3]]
           done == StartsDone(r.dels)
           woken == {c \in Callers :
                       callers[c].pc = "awaitStart" /\ callers[c].start \in done}
       IN \E st \in {requestsResumed(woken,
                       [b |-> startsResumed(r.dels, [Bridge EXCEPT !.pend = r.pend]),
                        ids |-> <<>>])} :
            /\ buffer' = r.buffer
            /\ SetBridge(st.b)
            /\ callers' = [c \in Callers |->
                  IF got(c) # {}
                  THEN [callers[c] EXCEPT !.pc = "resolved", !.got = msgId(c),
                                          !.err = res(c).error,
                                          !.out = IF callers[c].method = "tools/list"
                                                  THEN listResult(res(c))
                                                  ELSE toolResult(res(c))]
                  ELSE IF c \in woken
                  THEN [callers[c] EXCEPT !.pc = "pending", !.id = st.ids[c]]
                  ELSE callers[c]]
            /\ startPc' = [k \in Spawns |->
                  IF got(StartOwner(k)) = {} THEN startPc[k]
                  ELSE IF startPc[k] = "awaitInit" THEN "awaitNotif"
                  ELSE IF startPc[k] = "awaitNotif" THEN "done"
                  ELSE startPc[k]]
  /\ pipe' = SubSeq(pipe, n + 1, Len(pipe))
  /\ UNCHANGED <<process, alive>>

\* a running child prints one line; at most cap characters wait in the pipe
ChildWriteUpTo(line, cap) ==
  /\ alive # {}
  /\ Len(pipe) + Len(line) + 1 <= cap
  /\ pipe' = pipe \o line \o <<NL>>
  /\ UNCHANGED <<process, alive, messageId, pendingRequests, buffer, stdin, callers,
                 startPc>>

ChildWrite(line) == ChildWriteUpTo(line, MaxPipe)

\* a child process exits; the bridge registers no "exit" or "close" handler
ChildExit(k) ==
  /\ k \in alive
  /\ alive' = alive \ {k}
  /\ UNCHANGED <<process, messageId, pendingRequests, buffer, stdin, pipe, callers,
                 startPc>>

BridgeInit ==
  /\ process = 0
  /\ alive = {}
  /\ messageId = 1
  /\ pendingRequests = <<>>
  /\ buffer = <<>>
  /\ stdin = <<>>
  /\ pipe = <<>>
  /\ callers = [c \in Callers |-> Idle]
  /\ lastData = NoData
  /\ delivered = NoDelivery
  /\ startPc = [k \in Spawns |-> "none"]

BridgeNext ==
  \/ Start /\ UNCHANGED <<lastData, delivered, registryVars, toolVars>>
  \/ \E c \in Callers :
       Request(c, "tools/call", NoParams) /\ UNCHANGED <<lastData, delivered, registryVars, toolVars>>
  \/ \E n \in 1..MaxPipe :
       StdoutData(n) /\ UNCHANGED <<lastData, delivered, registryVars, toolVars>>
  \/ \E line \in ChildLines :
       ChildWrite(line) /\ UNCHANGED <<lastData, delivered, registryVars, toolVars>>
  \/ \E k \in Spawns : ChildExit(k) /\ UNCHANGED <<lastData, delivered, registryVars, toolVars>>

-----------------------------------------------------------------------------
(* The bridge used through listTools() and the tools synthesized from the child's
   tool list, with replies that carry errors and several lines per chunk *)

MaxBacklog == 6

\* the tool names the child declares in its tools/list reply, and the inputs tried
DeclaredTools == {"t1"}
Inputs == {"x"}

\* the child answers ids it was sent, with a result or an error, possibly more
\* than once, and prints log lines
DispatchLines ==
  {ReplyLine(k) : k \in Ids} \cup {ErrorLine(k) : k \in Ids} \cup {LogLine}

Answers(line) == JSONparse(line).ok => JSONparse(line).id < messageId

\* listTools(): const res = await this.request("tools/list", {})
ListTools(c) == Request(c, "tools/list", NoParams)

\* execute of a tool that getMastraTools() built from the returned list:
\* this.request("tools/call", { name: tool.name, arguments: input })
ToolExecute(c, tool, input) ==
  /\ ListReturned
  /\ Request(c, "tools/call", [name |-> tool, arguments |-> input])

\* the stdout "data" handler, with the history of what the chunk held
StdoutDataLogged(n) ==
  /\ StdoutData(n)
  /\ \E r \in {processBuffer(buffer \o toString(SubSeq(pipe, 1, n)),
                              pendingRequests)} :
       LET lines == split(buffer \o toString(SubSeq(pipe, 1, n)), <<>>, <<>>)
       IN lastData' = [lines |-> SubSeq(lines, 1, Len(lines) - 1), dels |-> r.dels]

DispatchNext ==
  \/ \E c \in Callers : ListTools(c) /\ UNCHANGED <<lastData, delivered, registryVars, toolVars>>
  \/ \E c \in Callers, tool \in DeclaredTools, input \in Inputs :
       ToolExecute(c, tool, input) /\ UNCHANGED <<lastData, delivered, registryVars, toolVars>>
  \* the chunks here are whole: everything the child has printed so far
  \/ \E n \in {Len(pipe)} :
       StdoutDataLogged(n) /\ UNCHANGED <<delivered, registryVars, toolVars>>
  \/ \E line \in {l \in DispatchLines : Answers(l)} :
       ChildWriteUpTo(line, MaxBacklog) /\ UNCHANGED <<lastData, delivered, registryVars, toolVars>>

-----------------------------------------------------------------------------
(* The same output of the child delivered in chunks cut at every position *)

MaxLines == 2

\* the ids of the calls that wait when the output arrives
ChunkIds == 3..(2 + NCallers)

\* the lines of the output: replies to the waiting calls, plain or with a result
\* that holds a character outside ASCII, and log lines
ChunkLines ==
  {ReplyLine(k) : k \in ChunkIds} \cup {PayloadLine(k) : k \in ChunkIds} \cup {LogLine}

\* the texts of up to n lines, each ended by a newline
RECURSIVE Texts(_)
Texts(n) ==
  IF n = 0 THEN {<<>>}
  ELSE Texts(n - 1) \cup {t \o l \o <<NL>> : t \in Texts(n - 1), l \in ChunkLines}

\* what the child has printed: whole lines and possibly the beginning of a line
ChunkStreams ==
  UNION {{utf8(SubSeq(t, 1, m)) : m \in 0..Len(t)} : t \in Texts(MaxLines)}

\* an envelope written to the running child 1
Envelope(id, method) ==
  [id |-> id, method |-> method, params |-> NoParams, process |-> 1, live |-> TRUE]

\* a started bridge whose callers have all written a tools/call and wait, and a
\* child that has printed its output, none of it delivered yet
ChunkInit ==
  /\ process = 1
  /\ alive = {1}
  /\ messageId = 3 + NCallers
  /\ pendingRequests = [id \in ChunkIds |-> id - 2]
  /\ buffer = <<>>
  /\ stdin = <<Envelope(1, "initialize"), Envelope(2, "notifications/initialized")>>
               \o [c \in Callers |-> Envelope(c + 2, "tools/call")]
  /\ pipe \in ChunkStreams
  /\ callers = [c \in Callers |->
                  [Idle EXCEPT !.pc = "pending", !.method = "tools/call", !.id = c + 2]]
  /\ lastData = NoData
  /\ delivered = NoDelivery
  /\ startPc = [k \in Spawns |-> IF k = 1 THEN "done" ELSE "none"]

\* the stdout "data" handler on a chunk of n bytes, with the history of all
\* chunks
ChunkData(n) ==
  /\ StdoutData(n)
  /\ \E r \in {processBuffer(buffer \o toString(SubSeq(pipe, 1, n)),
                              pendingRequests)} :
       delivered' = [bytes |-> delivered.bytes \o SubSeq(pipe, 1, n),
                     dels |-> delivered.dels \o r.dels]

ChunkNext ==
  \E n \in 1..Len(pipe) : ChunkData(n) /\ UNCHANGED <<lastData, registryVars, toolVars>>

-----------------------------------------------------------------------------
(* The session registries of the HTTP entrypoints *)

MaxSessions == 2

Variants == {"gateway", "http", "dynamic", "sse"}
\* config.servers of the gateway, and the X-MCP-Server headers tried
Servers == {"srvA", "srvB"}
ServerHeaders == {"", "nosuch", "srvA"}
\* Mcp-Session-Id / sessionId values tried: 0 is "no id"
SidInputs == 0..MaxSessions
Methods == {"initialize", "tools/call", "nosuch/method"}
\* the methods the gateway proxies to the child's client
Proxied == {"tools/list", "tools/call", "resources/list", "prompts/list", "ping"}
\* params.name of a tools/call: a tool the child declares, and one it does not
ToolNames == {"t1", "nosuch"}
ClientErrors == {400, 404}

NoReq == [op |-> "none", sid |-> 0, handshake |-> FALSE, stale |-> FALSE,
          known |-> FALSE, status |-> 0, routed |-> 0, newSid |-> 0, fresh |-> TRUE,
          body |-> "none", unknown |-> FALSE, server |-> "", attempted |-> 0]

\* a faulty generator: the first id is handed out twice
randomUUIDReissues(n) == IF n = 0 THEN 1 ELSE n

\* a faulty generator: the same id every time
randomUUIDRepeats(n) == 1

\* randomUUID() after n earlier calls: an id that was never handed out before
randomUUID(n) == n + 1

\* sessions.has(sessionId) / sessions.get(sessionId) !== undefined
Has(reg, sid) == sid \in DOMAIN reg

\* a faulty set: the entries of the other sessions are lost
MapSetClears(reg, sid, eid) == (sid :> eid)

\* sessions.set(sessionId, endpoint)
MapSet(reg, sid, eid) == (sid :> eid) @@ reg

\* a faulty delete: the entry stays
MapDeleteKeeps(reg, sid) == reg

\* sessions.delete(sessionId)
MapDelete(reg, sid) == [k \in DOMAIN reg \ {sid} |-> reg[k]]

\* history: whether a request bears the id of a removed or never created session
Stale(sid) == sid # 0 /\ (sid \in closedIds \/ sid > uuids)

\* a faulty close: the transport and its child stay up
CloseKeepsOpen(eps, eid) == eps

\* transport.close(), or the child's exit that fires transport.onclose
Close(eps, eid) == [eps EXCEPT ![eid].open = FALSE]

\* a faulty catch: the error leaves the handler and the request gets no response
GwCatchRethrows(thrown) == [status |-> 0, body |-> "none"]

\* gateway: catch (error) { res.status(500).json({ error: error.message }) }
GwCatch(thrown) == [status |-> 500, body |-> "error"]

\* gateway: res.json({ jsonrpc: "2.0", result, id }) with the result of the
\* dispatch: the client's result, or { error: "Unknown method" }
GwResult(method) ==
  [status |-> 200, body |-> IF method \in Proxied THEN "result" ELSE "resultError"]

\* a response that hands out no session id; unknown: the request names a method
\* or a tool that does not exist; server: its X-MCP-Server header; attempted: the
\* id generated by a handshake that failed
Answer(op, sid, handshake, routed, out, unknown, server, attempted) ==
  lastReq' = [op |-> op, sid |-> sid, handshake |-> handshake, stale |-> Stale(sid),
              known |-> Has(sessions, sid), status |-> out.status, routed |-> routed,
              newSid |-> 0, fresh |-> TRUE, body |-> out.body, unknown |-> unknown,
              server |-> server, attempted |-> attempted]

\* a response that creates nothing
Response(op, sid, handshake, routed, out, unknown) ==
  Answer(op, sid, handshake, routed, out, unknown, "", 0)

\* a response with the given status: a result for 200, an error body otherwise
Respond(op, sid, handshake, status, routed) ==
  Response(op, sid, handshake, routed,
           [status |-> status, body |-> IF status = 200 THEN "result" ELSE "error"],
           FALSE)

\* const newSessionId = randomUUID(); a new endpoint; sessions.set(newSessionId, ...);
\* transport.onclose = () => sessions.delete(newSessionId); the request is served by it
CreateSession(op, sid) ==
  /\ uuids < MaxSessions
  /\ LET newSid == randomUUID(uuids)
         eid == Len(endpoints) + 1
     IN /\ uuids' = uuids + 1
        /\ endpoints' = Append(endpoints, [sid |-> newSid, open |-> TRUE, server |-> ""])
        /\ sessions' = MapSet(sessions, newSid, eid)
        /\ lastReq' = [op |-> op, sid |-> sid, handshake |-> TRUE, stale |-> Stale(sid),
                       known |-> Has(sessions, sid),
                       status |-> 200, routed |-> eid, newSid |-> newSid,
                       fresh |-> ~Has(sessions, newSid),
                       body |-> "result", unknown |-> FALSE,
                       server |-> "", attempted |-> 0]
  /\ UNCHANGED <<variant, connecting, closedIds, inflight>>

\* the entry of sid is removed and its transport closed
RemoveSession(sid) ==
  /\ sessions' = MapDelete(sessions, sid)
  /\ endpoints' = Close(endpoints, sessions[sid])
  /\ closedIds' = closedIds \cup {sid}

\* gateway: handleMcpRequest (POST /sse and GET /sse), up to its first suspension
GwRequest(server, sid, method, tool) ==
  /\ variant = "gateway"
  /\ IF server = ""
     THEN /\ Respond("POST", sid, method = "initialize", 400, 0)
          /\ UNCHANGED <<sessions, endpoints, uuids, connecting, closedIds, inflight>>
     ELSE IF server \notin Servers
     THEN /\ Respond("POST", sid, method = "initialize", 404, 0)
          /\ UNCHANGED <<sessions, endpoints, uuids, connecting, closedIds, inflight>>
     ELSE IF sid # 0 /\ Has(sessions, sid)
     THEN IF method \notin Proxied
          THEN \* not a method of the proxy: result = { error: "Unknown method" }
               /\ Response("POST", sid, method = "initialize", 0, GwResult(method),
                           TRUE)
               /\ UNCHANGED <<sessions, endpoints, uuids, connecting, closedIds,
                              inflight>>
          ELSE \* proxied: suspended in `await session.client.callTool(...)`
               /\ inflight' = inflight \cup
                     {[sid |-> sid, eid |-> sessions[sid], method |-> method,
                       tool |-> tool, server |-> server]}
               /\ UNCHANGED <<sessions, endpoints, uuids, connecting, closedIds,
                              lastReq>>
     ELSE IF method = "initialize"
     THEN \* randomUUID(), then createMcpClient spawns the child and connects
          /\ uuids < MaxSessions
          /\ uuids' = uuids + 1
          /\ endpoints' = Append(endpoints, [sid |-> randomUUID(uuids), open |-> TRUE,
                                              server |-> server])
          /\ connecting' = connecting \cup
                {[sid |-> randomUUID(uuids), eid |-> Len(endpoints) + 1, bore |-> sid,
                  server |-> server]}
          /\ UNCHANGED <<sessions, closedIds, lastReq, inflight>>
     ELSE /\ Respond("POST", sid, FALSE, 400, 0)
          /\ UNCHANGED <<sessions, endpoints, uuids, connecting, closedIds, inflight>>
  /\ UNCHANGED variant

\* gateway: handleMcpRequest resumed after createMcpClient: sessions.set, onclose,
\* the response; or client.connect threw and the catch answers 500
GwConnected(h, ok) ==
  /\ variant = "gateway"
  /\ h \in connecting
  /\ connecting' = connecting \ {h}
  /\ IF ok
     THEN /\ sessions' = MapSet(sessions, h.sid, h.eid)
          /\ lastReq' = [op |-> "POST", sid |-> h.bore, handshake |-> TRUE,
                         stale |-> Stale(h.bore), known |-> FALSE,
                         status |-> 200, routed |-> h.eid,
                         newSid |-> h.sid, fresh |-> ~Has(sessions, h.sid),
                         body |-> "result", unknown |-> FALSE,
                         server |-> h.server, attempted |-> 0]
          /\ UNCHANGED endpoints
     ELSE /\ Answer("POST", h.bore, TRUE, 0, GwCatch("connect"), FALSE, h.server,
                    h.sid)
          /\ endpoints' = Close(endpoints, h.eid)
          /\ UNCHANGED sessions
  /\ UNCHANGED <<variant, uuids, closedIds, inflight>>

\* gateway: handleMcpRequest resumed after the client call: the child's reply is
\* answered 200; a rejected call (error reply, request timeout) reaches the catch
\* and is answered 500
GwReply(r, throws) ==
  /\ variant = "gateway"
  /\ r \in inflight
  /\ throws \/ endpoints[r.eid].open
  /\ inflight' = inflight \ {r}
  /\ LET out == IF throws THEN GwCatch(r.tool) ELSE GwResult(r.method)
     IN lastReq' = [op |-> "POST", sid |-> r.sid, handshake |-> FALSE,
                    stale |-> FALSE, known |-> TRUE, status |-> out.status,
                    routed |-> r.eid, newSid |-> 0, fresh |-> TRUE,
                    body |-> out.body, unknown |-> r.tool \notin DeclaredTools,
                    server |-> r.server, attempted |-> 0]
  /\ UNCHANGED <<variant, sessions, endpoints, uuids, connecting, closedIds>>

\* gateway: app.delete("/sse"): close the transport and drop the entry; always {ok: true}
GwDelete(sid) ==
  /\ variant = "gateway"
  /\ IF Has(sessions, sid)
     THEN /\ RemoveSession(sid)
          /\ Respond("DELETE", sid, FALSE, 200, sessions[sid])
     ELSE /\ Respond("DELETE", sid, FALSE, 200, 0)
          /\ UNCHANGED <<sessions, endpoints, closedIds>>
  /\ UNCHANGED <<variant, uuids, connecting, inflight>>

\* the transport of a registered session closes: transport.onclose deletes the entry
TransportClose(sid) ==
  /\ variant \in {"gateway", "http", "dynamic"}
  /\ Has(sessions, sid)
  /\ RemoveSession(sid)
  /\ UNCHANGED <<variant, uuids, connecting, lastReq, inflight>>

\* http: app.post("/sse")
HttpPost(sid, method, hasPath) ==
  /\ variant = "http"
  /\ IF sid # 0 /\ Has(sessions, sid)
     THEN \* session.transport.handleRequest: the transport of an initialized
          \* session refuses a second initialize with 400
          /\ Respond("POST", sid, method = "initialize",
                     IF method = "initialize" THEN 400 ELSE 200, sessions[sid])
          /\ UNCHANGED <<variant, sessions, endpoints, uuids, connecting, closedIds,
                         inflight>>
     ELSE IF method = "initialize"
     THEN IF hasPath
          THEN CreateSession("POST", sid)
          ELSE /\ Respond("POST", sid, TRUE, 400, 0)
               /\ UNCHANGED <<variant, sessions, endpoints, uuids, connecting, closedIds, inflight>>
     ELSE /\ Respond("POST", sid, FALSE, 400, 0)
          /\ UNCHANGED <<variant, sessions, endpoints, uuids, connecting, closedIds, inflight>>

\* http: app.get("/sse")
HttpGet(sid, hasPath) ==
  /\ variant = "http"
  /\ IF sid = 0 /\ hasPath
     THEN CreateSession("GET", sid)
     ELSE /\ IF Has(sessions, sid)
             THEN Respond("GET", sid, FALSE, 200, sessions[sid])
             ELSE Respond("GET", sid, FALSE, 400, 0)
          /\ UNCHANGED <<variant, sessions, endpoints, uuids, connecting, closedIds, inflight>>

\* http: app.delete("/sse")
HttpDelete(sid) ==
  /\ variant = "http"
  /\ IF Has(sessions, sid)
     THEN /\ RemoveSession(sid)
          /\ Respond("DELETE", sid, FALSE, 200, sessions[sid])
     ELSE /\ Respond("DELETE", sid, FALSE, 404, 0)
          /\ UNCHANGED <<sessions, endpoints, closedIds>>
  /\ UNCHANGED <<variant, uuids, connecting, inflight>>

\* dynamic: app.get("/sse"): every GET opens a new session
DynGet(sid) ==
  /\ variant = "dynamic"
  /\ CreateSession("GET", sid)

\* dynamic: app.post("/sse")
DynPost(sid) ==
  /\ variant = "dynamic"
  /\ IF Has(sessions, sid)
     THEN Respond("POST", sid, FALSE, 200, sessions[sid])
     ELSE Respond("POST", sid, FALSE, 400, 0)
  /\ UNCHANGED <<variant, sessions, endpoints, uuids, connecting, closedIds, inflight>>

\* sse: app.get("/sse"): a new SSEServerTransport under its own fresh sessionId
SseGet(sid) ==
  /\ variant = "sse"
  /\ CreateSession("GET", sid)

\* sse: app.post("/messages")
SseMessages(sid) ==
  /\ variant = "sse"
  /\ IF sid = 0
     THEN Respond("POST", sid, FALSE, 400, 0)
     ELSE IF ~Has(sessions, sid)
     THEN Respond("POST", sid, FALSE, 404, 0)
     ELSE Respond("POST", sid, FALSE, 200, sessions[sid])
  /\ UNCHANGED <<variant, sessions, endpoints, uuids, connecting, closedIds, inflight>>

\* sse: req.on("close"): the client's stream closes
SseReqClose(sid) ==
  /\ variant = "sse"
  /\ Has(sessions, sid)
  /\ RemoveSession(sid)
  /\ UNCHANGED <<variant, uuids, connecting, lastReq, inflight>>

\* a handshake of the http, dynamic or sse entrypoint in which
\* `await server.connect(transport)` or the handling of the first request throws.
\* http and dynamic have put the session in the registry before that await, sse
\* puts it after. The POST handler of http catches and answers 500; the GET
\* handlers have no try (http, dynamic) or answer only if no header was sent (sse):
\* answered says whether the request gets the 500
HandshakeThrows(op, sid, answered) ==
  /\ uuids < MaxSessions
  /\ \/ variant = "http" /\ op = "POST" /\ ~(sid # 0 /\ Has(sessions, sid)) /\ answered
     \/ variant = "http" /\ op = "GET" /\ sid = 0
     \/ variant \in {"dynamic", "sse"} /\ op = "GET"
  /\ LET newSid == randomUUID(uuids)
         eid == Len(endpoints) + 1
     IN /\ uuids' = uuids + 1
        /\ endpoints' = Append(endpoints, [sid |-> newSid, open |-> variant # "sse",
                                            server |-> ""])
        /\ sessions' = IF variant = "sse" THEN sessions
                       ELSE MapSet(sessions, newSid, eid)
        /\ Answer(op, sid, TRUE, 0,
                  IF answered THEN [status |-> 500, body |-> "error"]
                  ELSE [status |-> 0, body |-> "none"],
                  FALSE, "", newSid)
  /\ UNCHANGED <<variant, connecting, closedIds, inflight>>

RegistryInit ==
  /\ variant \in Variants
  /\ sessions = <<>>
  /\ endpoints = <<>>
  /\ uuids = 0
  /\ connecting = {}
  /\ closedIds = {}
  /\ lastReq = NoReq
  /\ inflight = {}

\* the registry at rest, for the specifications of the other parts
RegistryIdle ==
  /\ variant = "sse"
  /\ sessions = <<>>
  /\ endpoints = <<>>
  /\ uuids = 0
  /\ connecting = {}
  /\ closedIds = {}
  /\ lastReq = NoReq
  /\ inflight = {}

RegistryNext ==
  \/ \E server \in ServerHeaders, sid \in SidInputs, m \in Methods, tool \in ToolNames :
       GwRequest(server, sid, m, tool) /\ UNCHANGED <<bridgeVars, toolVars>>
  \/ \E r \in inflight, throws \in BOOLEAN :
       GwReply(r, throws) /\ UNCHANGED <<bridgeVars, toolVars>>
  \/ \E h \in connecting, ok \in BOOLEAN :
       GwConnected(h, ok) /\ UNCHANGED <<bridgeVars, toolVars>>
  \/ \E sid \in SidInputs : GwDelete(sid) /\ UNCHANGED <<bridgeVars, toolVars>>
  \/ \E sid \in SidInputs : TransportClose(sid) /\ UNCHANGED <<bridgeVars, toolVars>>
  \/ \E sid \in SidInputs, m \in Methods, hasPath \in BOOLEAN :
       HttpPost(sid, m, hasPath) /\ UNCHANGED <<bridgeVars, toolVars>>
  \/ \E sid \in SidInputs, hasPath \in BOOLEAN :
       HttpGet(sid, hasPath) /\ UNCHANGED <<bridgeVars, toolVars>>
  \/ \E sid \in SidInputs : HttpDelete(sid) /\ UNCHANGED <<bridgeVars, toolVars>>
  \/ \E sid \in SidInputs : DynGet(sid) /\ UNCHANGED <<bridgeVars, toolVars>>
  \/ \E sid \in SidInputs : DynPost(sid) /\ UNCHANGED <<bridgeVars, toolVars>>
  \/ \E sid \in SidInputs : SseGet(sid) /\ UNCHANGED <<bridgeVars, toolVars>>
  \/ \E sid \in SidInputs : SseMessages(sid) /\ UNCHANGED <<bridgeVars, toolVars>>
  \/ \E sid \in SidInputs : SseReqClose(sid) /\ UNCHANGED <<bridgeVars, toolVars>>
  \/ \E op \in {"POST", "GET"}, sid \in SidInputs, answered \in BOOLEAN :
       HandshakeThrows(op, sid, answered) /\ UNCHANGED <<bridgeVars, toolVars>>

\* the gateway alone, with requests for each of its configured servers
GatewayInit == RegistryInit /\ variant = "gateway"

GatewayNext ==
  \/ \E server \in Servers, sid \in SidInputs, m \in {"initialize", "tools/call"},
        tool \in DeclaredTools :
       GwRequest(server, sid, m, tool) /\ UNCHANGED <<bridgeVars, toolVars>>
  \/ \E r \in inflight, throws \in BOOLEAN :
       GwReply(r, throws) /\ UNCHANGED <<bridgeVars, toolVars>>
  \/ \E h \in connecting, ok \in BOOLEAN :
       GwConnected(h, ok) /\ UNCHANGED <<bridgeVars, toolVars>>
  \/ \E sid \in SidInputs : GwDelete(sid) /\ UNCHANGED <<bridgeVars, toolVars>>
  \/ \E sid \in SidInputs : TransportClose(sid) /\ UNCHANGED <<bridgeVars, toolVars>>

-----------------------------------------------------------------------------
(* The sticky path store, the path resolver and the Command Adapter tools *)

\* paths are sequences of path pieces: "h" stands for the default host root
\* process.env.HOST_ROOT || "/home/ferreirase/Documents"
HOST_ROOT == IF env # <<>> THEN env ELSE <<"h">>
\* "/data"
CONTAINER_DATA == <<"/", "d">>
DEFAULT_PROJECT_PATH == HOST_ROOT

\* the `path` arguments tried: <<>> is an absent (or empty) argument
NoPath == <<>>
ProvidedPaths == {NoPath, <<"h", "p">>, <<"x">>}

\* the keys of the store: a session id, or 0 for the key "default"
Keys == 0..MaxSessions

\* how a tool's external step can end
Outcomes == {"ok", "nonzero", "spawnerror", "timeout"}

\* path.startsWith(prefix)
startsWith(path, prefix) ==
  /\ Len(prefix) <= Len(path)
  /\ SubSeq(path, 1, Len(prefix)) = prefix

\* a faulty replace: every occurrence is replaced
RECURSIVE replaceAll(_, _, _)
replaceAll(path, pat, rep) ==
  IF pat = <<>> \/ Len(path) < Len(pat) THEN path
  ELSE IF SubSeq(path, 1, Len(pat)) = pat
  THEN rep \o replaceAll(SubSeq(path, Len(pat) + 1, Len(path)), pat, rep)
  ELSE <<Head(path)>> \o replaceAll(Tail(path), pat, rep)

\* path.replace(pat, rep) with a string pattern: the first occurrence only
replace(path, pat, rep) ==
  LET at == {i \in 1..(Len(path) - Len(pat) + 1) :
                SubSeq(path, i, i + Len(pat) - 1) = pat}
  IN IF at = {} THEN path
     ELSE LET i == CHOOSE k \in at : \A j \in at : k <= j
          IN SubSeq(path, 1, i - 1) \o rep \o SubSeq(path, i + Len(pat), Len(path))

resolvePath(hostPath) ==
  IF startsWith(hostPath, HOST_ROOT)
  THEN replace(hostPath, HOST_ROOT, CONTAINER_DATA)
  ELSE hostPath

\* context?.mcp?.extra?.sessionId || "default"
getSessionId(sid, hasCtx) == IF hasCtx THEN sid ELSE 0

\* a faulty store: the path is not kept
PathsSetForgets(store, key, path) == store

\* sessionPaths.set(sessionId, providedPath)
PathsSet(store, key, path) == (key :> path) @@ store

\* sessionPaths.get(sessionId) || DEFAULT_PROJECT_PATH
PathsGet(store, key) ==
  IF key \in DOMAIN store /\ store[key] # NoPath THEN store[key] ELSE DEFAULT_PROJECT_PATH

\* a faulty lookup: the working directory is read before the new path is stored
getEffectivePathStale(store, key, providedPath) ==
  LET st == IF providedPath # NoPath THEN PathsSet(store, key, providedPath) ELSE store
  IN [store |-> st, cwd |-> resolvePath(PathsGet(store, key))]

\* a faulty lookup: the path given is used for this call but not kept
getEffectivePathOnce(store, key, providedPath) ==
  [store |-> store,
   cwd |-> resolvePath(IF providedPath # NoPath THEN providedPath
                       ELSE PathsGet(store, key))]

getEffectivePath(store, key, providedPath) ==
  LET st == IF providedPath # NoPath THEN PathsSet(store, key, providedPath) ELSE store
  IN [store |-> st, cwd |-> resolvePath(PathsGet(st, key))]

\* a faulty check: the marker directory is never found
checkInitNever(cwd, dirs) == FALSE

\* existsSync(join(cwd, "backlog"))
checkInit(cwd, dirs) == cwd \in dirs

\* the tools by what their execute does: "init" runs `backlog init`; "cli" runs
\* checkInit and then the CLI; "read" runs checkInit and then reads files; "guide"
\* runs the CLI only
InitTools == {"init_project", "init-project"}
CliTools ==
  {"task_list", "task_view", "task_create", "task_edit", "task_complete",
   "task_archive", "task_search", "document_list", "document_create",
   "document_update", "document_search", "milestone_list", "milestone_add",
   "milestone_rename", "milestone_remove",
   "list-tasks", "view-task", "create-task", "edit-task", "list-docs"}
ReadTools == {"document_view", "view-doc"}
GuideTools == {"get_workflow_overview", "get_task_creation_guide",
               "get_task_execution_guide", "get_task_completion_guide"}

Tools == InitTools \cup CliTools \cup ReadTools \cup GuideTools

ToolKind(tool) ==
  IF tool \in InitTools THEN "init"
  ELSE IF tool \in CliTools THEN "cli"
  ELSE IF tool \in ReadTools THEN "read"
  ELSE "guide"

\* the kinds of execute that occur among the tools
ToolKinds == {ToolKind(tool) : tool \in Tools}

\* a faulty handler: a timeout escapes the catch
CaughtButTimeout(thrown) ==
  IF thrown = "ok" THEN "ok" ELSE IF thrown = "timeout" THEN "raised" ELSE "error"

\* try { ... } catch (error) { return { error: error.message } }
Caught(thrown) == IF thrown = "ok" THEN "ok" ELSE "error"

\* the body of a tool's execute after getEffectivePath
Execute(kind, cwd, dirs, outcome) ==
  LET checked == kind \in {"cli", "read"}
      thrown == IF checked /\ ~checkInit(cwd, dirs) THEN "notInitialized" ELSE outcome
  IN [spawned |-> thrown # "notInitialized" /\ kind # "read",
      thrown |-> thrown,
      result |-> Caught(thrown),
      dirs |-> IF kind = "init" /\ outcome = "ok" THEN dirs \cup {cwd} ELSE dirs]

NoCall == [kind |-> "none", sid |-> 0, key |-> 0, noPath |-> TRUE, cwd |-> <<>>,
           hadMarker |-> FALSE, spawned |-> FALSE, threw |-> FALSE, result |-> "ok",
           kept |-> TRUE, afterThrow |-> FALSE, afterInit |-> FALSE]

\* a tools/call message routed to the endpoint of session sid, for a tool whose
\* execute is of the given kind
ToolCall(sid, hasCtx, kind, providedPath, outcome) ==
  /\ variant = "sse"
  /\ Has(sessions, sid)
  /\ \E key \in {getSessionId(sid, hasCtx)} :
     \E eff \in {getEffectivePath(paths, key, providedPath)} :
     \E run \in {Execute(kind, eff.cwd, marker, outcome)} :
       /\ paths' = eff.store
       /\ marker' = run.dirs
       /\ lastProvided' = IF providedPath # NoPath
                          THEN [lastProvided EXCEPT ![key] = providedPath]
                          ELSE lastProvided
       /\ providedBy' = IF providedPath # NoPath
                        THEN [providedBy EXCEPT ![key] = sid]
                        ELSE providedBy
       /\ UNCHANGED <<registryVars, resolverVars, cmdVars, execs>>
       /\ lastCall' = [kind |-> kind, sid |-> sid, key |-> key,
                       noPath |-> providedPath = NoPath, cwd |-> eff.cwd,
                       hadMarker |-> eff.cwd \in marker, spawned |-> run.spawned,
                       threw |-> run.thrown # "ok", result |-> run.result,
                       kept |-> Has(sessions', sid),
                       afterThrow |-> lastCall.threw /\ lastCall.key = key,
                       afterInit |-> /\ lastCall.kind = "init" /\ ~lastCall.threw
                                     /\ lastCall.key = key]

StoreInit ==
  /\ paths = <<>>
  /\ marker = {}
  /\ lastCall = NoCall
  /\ lastProvided = [k \in Keys |-> NoPath]
  /\ providedBy = [k \in Keys |-> 0]
  /\ execs = <<>>

\* the resolver and the command builder at rest, HOST_ROOT not set
ResolverIdle ==
  /\ env = <<>>
  /\ inputPath = <<>>
  /\ resolved = <<>>

CmdIdle ==
  /\ val = <<>>
  /\ cmdTool = "none"
  /\ cmd = <<>>

ToolsInit == StoreInit /\ ResolverIdle /\ CmdIdle

\* the store under every kind of session key and path argument
PathsNext ==
  \/ \E sid \in {0} : SseGet(sid) /\ UNCHANGED <<bridgeVars, toolVars>>
  \/ \E sid \in SidInputs : SseReqClose(sid) /\ UNCHANGED <<bridgeVars, toolVars>>
  \/ \E sid \in SidInputs, hasCtx \in BOOLEAN, kind \in {ToolKind("list-tasks")},
        providedPath \in ProvidedPaths, outcome \in {"ok"} :
       ToolCall(sid, hasCtx, kind, providedPath, outcome) /\ UNCHANGED bridgeVars

\* every tool and every outcome of its external step
ToolsNext ==
  \/ \E sid \in {0} : SseGet(sid) /\ UNCHANGED <<bridgeVars, toolVars>>
  \/ \E sid \in SidInputs : SseReqClose(sid) /\ UNCHANGED <<bridgeVars, toolVars>>
  \/ \E sid \in SidInputs, hasCtx \in {TRUE}, kind \in ToolKinds,
        providedPath \in {NoPath, <<"h", "p">>}, outcome \in Outcomes :
       ToolCall(sid, hasCtx, kind, providedPath, outcome) /\ UNCHANGED bridgeVars

\* calls that change the path of their session and fail, at the marker check or
\* in the CLI
FailuresNext ==
  \/ \E sid \in {0} : SseGet(sid) /\ UNCHANGED <<bridgeVars, toolVars>>
  \/ \E sid \in SidInputs, hasCtx \in {TRUE}, kind \in {"init", "cli"},
        providedPath \in ProvidedPaths, outcome \in {"ok", "nonzero", "timeout"} :
       ToolCall(sid, hasCtx, kind, providedPath, outcome) /\ UNCHANGED bridgeVars

-----------------------------------------------------------------------------
(* Tool calls that overlap: execute suspends while its CLI process runs *)

MaxRunning == 2

\* sequence s without its i-th element
Without(s, i) == SubSeq(s, 1, i - 1) \o SubSeq(s, i + 1, Len(s))

\* execute of a tool that runs the CLI, up to `await execAsync(cmd, { cwd, ... })`:
\* getSessionId, getEffectivePath into the local const cwd, checkInit (whose throw
\* is caught and returned to the caller at once), then the CLI process is spawned
\* in cwd
ExecuteBegin(sid, hasCtx, kind, providedPath) ==
  /\ variant = "sse"
  /\ Has(sessions, sid)
  /\ Len(execs) < MaxRunning
  /\ \E key \in {getSessionId(sid, hasCtx)} :
     \E eff \in {getEffectivePath(paths, key, providedPath)} :
     \E x \in {[sid |-> sid, key |-> key, kind |-> kind, provided |-> providedPath,
                cwd |-> eff.cwd]} :
       /\ paths' = eff.store
       /\ lastProvided' = IF providedPath # NoPath
                          THEN [lastProvided EXCEPT ![key] = providedPath]
                          ELSE lastProvided
       /\ providedBy' = IF providedPath # NoPath
                        THEN [providedBy EXCEPT ![key] = sid]
                        ELSE providedBy
       /\ execs' = IF kind = "cli" /\ ~checkInit(eff.cwd, marker)
                   THEN execs
                   ELSE Append(execs, x)
  /\ UNCHANGED <<marker, lastCall, registryVars, resolverVars, cmdVars>>

\* execute resumed when its CLI process ends: the output, or the caught rejection
\* of execAsync as { error }, is returned to the caller; `backlog init` that ended
\* well has created the backlog directory in its cwd
ExecuteEnd(i, outcome) ==
  /\ i \in DOMAIN execs
  /\ execs' = Without(execs, i)
  /\ marker' = IF execs[i].kind = "init" /\ outcome = "ok"
                THEN marker \cup {execs[i].cwd} ELSE marker
  /\ UNCHANGED <<paths, lastProvided, providedBy, lastCall, registryVars, resolverVars,
                 cmdVars>>

\* the calls of one session, overlapping in every order
OverlapNext ==
  \/ \E sid \in {0} : SseGet(sid) /\ UNCHANGED <<bridgeVars, toolVars>>
  \/ \E sid \in {1}, hasCtx \in {TRUE}, kind \in {"init", "cli"},
        providedPath \in ProvidedPaths :
       ExecuteBegin(sid, hasCtx, kind, providedPath) /\ UNCHANGED bridgeVars
  \/ \E i \in 1..MaxRunning, outcome \in {"ok", "nonzero"} :
       ExecuteEnd(i, outcome) /\ UNCHANGED bridgeVars

-----------------------------------------------------------------------------
(* The path resolver under every configured host root *)

MaxRoot == 2
MaxPath == 3

PathChars == {"/", "d", "h"}

\* the sequences over S of length at most n
Seqs(S, n) == UNION {[1..k -> S] : k \in 0..n}

storeVars == <<paths, marker, lastCall, lastProvided, providedBy, execs>>

\* resolvePath / resolveToContainer applied to the input, then to its own result
Resolve ==
  /\ Len(resolved) < 2
  /\ resolved' = Append(resolved,
        resolvePath(IF resolved = <<>> THEN inputPath ELSE resolved[Len(resolved)]))
  /\ UNCHANGED <<env, inputPath>>

ResolverInit ==
  /\ env \in Seqs(PathChars, MaxRoot)
  /\ inputPath \in Seqs(PathChars, MaxPath) \ {<<>>}
  /\ resolved = <<>>

ResolverNext ==
  Resolve /\ UNCHANGED <<bridgeVars, registryVars, storeVars, cmdVars>>

-----------------------------------------------------------------------------
(* The invocation lines of the Command Adapter *)

MaxLen == 3

\* the double quote and the backslash
DQ == "DQUOTE"
BS == "BACKSLASH"
ArgChars == {"a", " ", DQ, BS}

\* s.replace(/c/g, rep): every occurrence of the character is replaced
RECURSIVE replaceEvery(_, _, _)
replaceEvery(s, ch, r) ==
  IF s = <<>> THEN <<>>
  ELSE (IF Head(s) = ch THEN r ELSE <<Head(s)>>) \o replaceEvery(Tail(s), ch, r)

\* (val) => `"${val.replace(/"/g, '\\"')}"`
escapeCmd(v) == <<DQ>> \o replaceEvery(v, DQ, <<BS, DQ>>) \o <<DQ>>

\* a line is the concatenation of its segments: fixed text, and interpolated
\* string arguments
Lit(t) == [arg |-> FALSE, text |-> <<t>>]
Arg(t) == [arg |-> TRUE, text |-> t]

\* an optional argument is appended only when it is non-empty
Opt(flag, v) == IF v # <<>> THEN <<Lit(flag), Arg(escapeCmd(v))>> ELSE <<>>

CmdTools == {"init-project", "task_search", "view-task", "task_edit", "document_update"}

\* the command string a tool hands to execAsync, every string argument being v
InvocationLine(tool, v) ==
  IF tool = "init-project"
  THEN <<Lit("backlog init "), Arg(escapeCmd(v)), Lit(" --defaults")>>
  ELSE IF tool = "task_search"
  THEN <<Lit("backlog tasks search "), Arg(escapeCmd(v)), Lit(" --plain")>>
  ELSE IF tool = "view-task"
  THEN <<Lit("backlog tasks view "), Arg(v), Lit(" --plain")>>
  ELSE IF tool = "task_edit"
  THEN <<Lit("backlog tasks edit "), Arg(v)>> \o Opt(" --title ", v)
  ELSE <<Lit("backlog doc edit "), Arg(v)>> \o Opt(" --title ", v)

\* how /bin/sh reads a double-quoted word that starts at s[1]: the value, whether
\* the closing quote was found, and what follows it
RECURSIVE dqScan(_, _, _)
dqScan(s, i, acc) ==
  IF i > Len(s) THEN [closed |-> FALSE, value |-> acc, rest |-> <<>>]
  ELSE IF s[i] = DQ
  THEN [closed |-> TRUE, value |-> acc, rest |-> SubSeq(s, i + 1, Len(s))]
  ELSE IF s[i] = BS /\ i < Len(s) /\ s[i + 1] \in {DQ, BS}
  THEN dqScan(s, i + 2, Append(acc, s[i + 1]))
  ELSE dqScan(s, i + 1, Append(acc, s[i]))

DQRead(s) ==
  IF s # <<>> /\ s[1] = DQ THEN dqScan(s, 2, <<>>)
  ELSE [closed |-> FALSE, value |-> <<>>, rest |-> s]

\* a tool builds its invocation line from the argument value
Build(tool) ==
  /\ cmdTool' = tool
  /\ cmd' = InvocationLine(tool, val)
  /\ UNCHANGED val

CmdInit ==
  /\ val \in Seqs(ArgChars, MaxLen)
  /\ cmdTool = "none"
  /\ cmd = <<>>

CmdNext ==
  \E tool \in CmdTools :
    Build(tool) /\ UNCHANGED <<bridgeVars, registryVars, storeVars, resolverVars>>

-----------------------------------------------------------------------------
(* Specifications *)

\* each part runs with the other parts at rest
BridgeStart == BridgeInit /\ RegistryIdle /\ ToolsInit
RegistryStart == RegistryInit /\ BridgeInit /\ ToolsInit
ToolsStart == ToolsInit /\ RegistryIdle /\ BridgeInit

BridgeSpec == BridgeStart /\ [][BridgeNext]_vars

DispatchSpec == BridgeStart /\ [][DispatchNext]_vars

ChunkStart == ChunkInit /\ RegistryIdle /\ ToolsInit
ChunkSpec == ChunkStart /\ [][ChunkNext]_vars

RegistrySpec == RegistryStart /\ [][RegistryNext]_vars

GatewayStart == GatewayInit /\ BridgeInit /\ ToolsInit
GatewaySpec == GatewayStart /\ [][GatewayNext]_vars

PathsSpec == ToolsStart /\ [][PathsNext]_vars

ToolsSpec == ToolsStart /\ [][ToolsNext]_vars

OverlapSpec == ToolsStart /\ [][OverlapNext]_vars

FailuresSpec == ToolsStart /\ [][FailuresNext]_vars

ResolverStart == ResolverInit /\ StoreInit /\ CmdIdle /\ RegistryIdle /\ BridgeInit
CmdStart == CmdInit /\ StoreInit /\ ResolverIdle /\ RegistryIdle /\ BridgeInit

ResolverSpec == ResolverStart /\ [][ResolverNext]_vars

CmdSpec == CmdStart /\ [][CmdNext]_vars

-----------------------------------------------------------------------------
(* Properties of the StdioBridge *)

\* C1: a reply line carrying id k resolves exactly the caller whose request was
\* assigned id k, whatever the order of the replies: a caller that waits is the one
\* the bridge will resolve for its id, and no caller ever receives a message that
\* carries another call's id.
C1_ReplyResolvesOwnCaller ==
  \A c \in Callers :
    /\ callers[c].pc = "resolved" => callers[c].got = callers[c].id
    /\ callers[c].pc = "pending" =>
         /\ callers[c].id \in DOMAIN pendingRequests
         /\ pendingRequests[callers[c].id] = c

\* two calls were outstanding together and the later one was answered first
C1_Witness ==
  \E c, d \in Callers :
    /\ callers[c].pc = "pending"
    /\ callers[d].pc = "resolved"
    /\ callers[c].id < callers[d].id
    /\ callers[d].got = callers[d].id

\* C2: when the child exits while requests are pending, every one of their callers is
\* resolved with a failure: once the output already delivered is consumed, no
\* request that was written to a running child is still pending after that child
\* has exited.
C2_ExitFailsPending ==
  pipe = <<>> =>
    \A c \in Callers : \A i \in DOMAIN stdin :
      (callers[c].pc = "pending" /\ stdin[i].id = callers[c].id /\ stdin[i].live)
        => stdin[i].process \in alive

\* C6: on a bridge that request() started by itself, no tools/list or tools/call
\* envelope is written to the child before both handshake envelopes (initialize,
\* then notifications/initialized) have been written, also when another request()
\* is made while the handshake is still under way.
C6_HandshakeBeforeToolCalls ==
  (process = 1 /\ \E c \in Callers : callers[c].start = 1) =>
    \A i \in DOMAIN stdin :
      stdin[i].method \in ToolMethods =>
        \E j, k \in 1..(i - 1) :
          /\ j < k
          /\ stdin[j].method = "initialize"
          /\ stdin[k].method = "notifications/initialized"

\* C7: start() on a started bridge is a no-op: no second child is spawned, the
\* process handle is not replaced and no second handshake is sent.
C7_StartIdempotent ==
  /\ process <= 1
  /\ Cardinality({i \in DOMAIN stdin : stdin[i].method = "initialize"}) <= 1

\* C8: the ids assigned by request() are pairwise distinct and strictly increasing
\* in the order in which the requests are sent, handshake requests included.
C8_IdsStrictlyIncreasing ==
  \A i, j \in DOMAIN stdin : i < j => stdin[i].id < stdin[j].id

\* handshake and tool calls of two concurrent callers have all been sent
C8_Witness ==
  /\ \E i \in DOMAIN stdin : stdin[i].method = "notifications/initialized"
  /\ \A c \in Callers : callers[c].pc = "pending"

\* C31: what a child reads on its stdin is a sequence of whole lines, each ended
\* by a newline and each the text of one envelope, as many as envelopes were
\* written to it, with strictly increasing ids, whatever the order in which the
\* concurrent request() calls and the handshake ran.
C31_WholeEnvelopesInIdOrder ==
  \A k \in Spawns :
    LET pieces == split(Written(stdin, k), <<>>, <<>>)
        lines == SubSeq(pieces, 1, Len(pieces) - 1)
    IN /\ pieces[Len(pieces)] = <<>>
       /\ Len(lines) = Cardinality({i \in DOMAIN stdin : stdin[i].process = k})
       /\ \A i \in DOMAIN lines : JSONparse(lines[i]).ok
       /\ \A i, j \in DOMAIN lines :
            i < j => JSONparse(lines[i]).id < JSONparse(lines[j]).id

\* a second request() wrote its envelope between the two handshake envelopes of
\* the start() that the first one triggered, and both calls have now written
C31_Witness ==
  /\ Len(stdin) = 4
  /\ stdin[1].method = "initialize" /\ stdin[2].method = "tools/call"
  /\ stdin[3].method = "notifications/initialized" /\ stdin[4].method = "tools/call"
  /\ \A i \in DOMAIN stdin : stdin[i].process = 1
  /\ \A c \in Callers : callers[c].pc = "pending"

\* C37: start() has resolved only if neither of its two handshake requests still
\* awaits a reply; a request() that triggered start() has written its own envelope
\* only if that start() has resolved; and as long as a handshake request of
\* start() has no reply, start() is unresolved and the request() that triggered
\* it is still suspended.
C37_StartAwaitsBothReplies ==
  \A k \in Spawns :
    LET awaited == {id \in DOMAIN pendingRequests : pendingRequests[id] = StartOwner(k)}
        triggered == {c \in Callers : callers[c].start = k}
    IN /\ startPc[k] = "done" =>
            /\ awaited = {}
            /\ \E i, j \in DOMAIN stdin :
                 /\ i < j
                 /\ stdin[i].method = "initialize" /\ stdin[i].process = k
                 /\ stdin[j].method = "notifications/initialized"
       /\ \A c \in triggered :
            callers[c].pc \in {"pending", "resolved"} => startPc[k] = "done"
       /\ awaited # {} =>
            /\ startPc[k] \in {"awaitInit", "awaitNotif"}
            /\ \A c \in triggered : callers[c].pc = "awaitStart"

\* the child answered both handshake requests, the request() that triggered the
\* start then wrote its envelope and was answered
C37_Witness ==
  \E c \in Callers :
    /\ callers[c].start = 1 /\ startPc[1] = "done"
    /\ callers[c].pc = "resolved" /\ callers[c].id = 3

\* C39: however the child's output was cut into chunks, the resolve calls made
\* (callers, ids, payloads, order), the pending calls left and the buffer tail
\* are those of processing the whole output delivered so far as one chunk.
C39_ChunkingIrrelevant ==
  LET whole == processBuffer(toString(delivered.bytes),
                             [id \in ChunkIds |-> id - 2])
  IN /\ delivered.dels = whole.dels
     /\ pendingRequests = whole.pend
     /\ buffer = whole.buffer

\* C14: a request() made after the child has exited is completed with a failure:
\* once the delivered output is consumed, no caller is pending on an envelope that
\* was written to a child that had already exited.
C14_RequestAfterExitFails ==
  pipe = <<>> =>
    \A c \in Callers : \A i \in DOMAIN stdin :
      (callers[c].pc = "pending" /\ stdin[i].id = callers[c].id) => stdin[i].live

\* C21: a synthesized tool writes a tools/call envelope that carries its name
\* and the given input; when its reply arrives, the tool raises if the reply has
\* an error field and returns the result otherwise.
C21_ToolCallOutcome ==
  /\ \A c \in Callers :
       callers[c].method = "tools/call" =>
         /\ callers[c].params.name \in DeclaredTools
         /\ callers[c].pc \in {"pending", "resolved"} =>
              \E i \in DOMAIN stdin :
                /\ stdin[i].id = callers[c].id
                /\ stdin[i].method = "tools/call"
                /\ stdin[i].params = callers[c].params
         /\ callers[c].pc = "resolved" =>
              callers[c].out = IF callers[c].err THEN "raised" ELSE "returned"
  /\ \A i \in DOMAIN lastData.dels :
       \E k \in DOMAIN lastData.lines :
         lastData.lines[k] = IF lastData.dels[i][3] THEN ErrorLine(lastData.dels[i][2])
                             ELSE ReplyLine(lastData.dels[i][2])

\* one tool call has raised the error of its reply
C21_Witness ==
  \E c \in Callers :
    /\ callers[c].method = "tools/call" /\ callers[c].pc = "resolved"
    /\ callers[c].out = "raised"
    /\ lastData.lines = <<ErrorLine(callers[c].id)>>

\* C22: in a chunk, lines that do not parse and replies whose id is not pending
\* resolve nothing: every call that was pending and whose id no line of the chunk
\* carries stays pending with its caller untouched, and every pending call whose
\* id a line carries is resolved, whatever lines stand before it.
C22_JunkLinesDropped ==
  [][lastData' # lastData =>
       LET lines == lastData'.lines
           answered == {id \in DOMAIN pendingRequests :
                          \E k \in DOMAIN lines :
                            JSONparse(lines[k]).ok /\ JSONparse(lines[k]).id = id}
       IN /\ \A id \in DOMAIN pendingRequests \ answered :
               /\ id \in DOMAIN pendingRequests'
               /\ pendingRequests'[id] = pendingRequests[id]
          /\ \A c \in Callers :
               callers[c].pc = "pending" =>
                 IF callers[c].id \in answered
                 THEN callers'[c].pc = "resolved"
                 ELSE callers'[c] = callers[c]
          /\ Len(lastData'.dels) = Cardinality(answered)
    ]_vars

\* a log line stood before a reply in one chunk: the reply resolved its caller
\* and the other caller is still pending
C22_Witness ==
  /\ Len(lastData.lines) = 2 /\ lastData.lines[1] = LogLine
  /\ \E c, d \in Callers :
       /\ callers[c].pc = "resolved" /\ lastData.lines[2] = ReplyLine(callers[c].id)
       /\ lastData.dels = <<<<c, callers[c].id, FALSE, <<>>>>>>
       /\ callers[d].pc = "pending"

\* C26: once a listTools() call has returned the child's tool list, a later
\* listTools() writes no tools/list envelope.
C26_ListToolsCached ==
  \A c \in Callers :
    (callers[c].method = "tools/list" /\ callers[c].cached) =>
      ~\E i \in DOMAIN stdin :
         stdin[i].id = callers[c].id /\ stdin[i].method = "tools/list"

\* C27: the buffer never holds a newline, and after a chunk it is exactly what
\* follows the last newline of the old buffer with the chunk appended.
C27_BufferIsTail ==
  /\ [](\A i \in DOMAIN buffer : buffer[i] # NL)
  /\ [][Len(pipe') < Len(pipe) =>
          LET all == buffer \o SubSeq(pipe, 1, Len(pipe) - Len(pipe'))
              nls == {i \in DOMAIN all : all[i] = NL}
              last == IF nls = {} THEN 0
                      ELSE CHOOSE i \in nls : \A j \in nls : j <= i
          IN buffer' = SubSeq(all, last + 1, Len(all))
       ]_vars

\* a chunk ended inside a line after an earlier line had been processed
C27_Witness ==
  /\ buffer # <<>>
  /\ \E k \in Spawns : startPc[k] \in {"awaitNotif", "done"}

\* C28: a caller is resolved at most once: no chunk resolves the same caller
\* twice, and a resolved caller is not touched by any later reply.
C28_ResolvedAtMostOnce ==
  [][\A c \in Callers :
       /\ Cardinality({i \in DOMAIN lastData'.dels : lastData'.dels[i][1] = c}) <= 1
       /\ callers[c].pc = "resolved" =>
            /\ callers'[c] = callers[c]
            /\ lastData' # lastData =>
                 \A i \in DOMAIN lastData'.dels : lastData'.dels[i][1] # c
    ]_vars

\* a second reply with the id of a resolved caller has been dropped
C28_Witness ==
  \E c \in Callers :
    /\ callers[c].pc = "resolved" /\ callers[c].got = callers[c].id
    /\ lastData.lines = <<ReplyLine(callers[c].id)>>
    /\ lastData.dels = <<>>

\* C29: every entry of the pending map belongs to an envelope that was written,
\* and once the delivered output is consumed no entry is left for an envelope
\* whose child has exited.
C29_PendingMatchesOutstanding ==
  /\ \A id \in DOMAIN pendingRequests : \E i \in DOMAIN stdin : stdin[i].id = id
  /\ pipe = <<>> =>
       \A id \in DOMAIN pendingRequests : \A i \in DOMAIN stdin :
         stdin[i].id = id => stdin[i].process \in alive

\* C30: with request() calls made while the bridge starts, one child is spawned,
\* one handshake is sent, and no caller's envelope is written before the start
\* has completed.
C30_OneStartOthersWait ==
  /\ process <= 1
  /\ Cardinality({i \in DOMAIN stdin : stdin[i].method = "initialize"}) <= 1
  /\ \A c \in Callers :
       callers[c].pc \in {"pending", "resolved"} => startPc[1] = "done"

-----------------------------------------------------------------------------
(* Properties of the session registries *)

\* C3: a request that is not a handshake and bears the id of a session that was
\* removed from the registry, or that never existed, is answered with a client
\* error (400 or 404) and reaches no endpoint.
C3_StaleIdRejected ==
  (lastReq.op # "none" /\ lastReq.stale /\ ~lastReq.handshake)
    => (lastReq.status \in ClientErrors /\ lastReq.routed = 0)

\* C4: no two live endpoints carry the same session id, every registry entry
\* leads to the endpoint created for its id, and a handshake never assigns an id
\* that is in the registry at that moment.
C4_OneLiveEndpointPerSession ==
  /\ \A i, j \in DOMAIN endpoints :
       (i # j /\ endpoints[i].open /\ endpoints[j].open)
         => endpoints[i].sid # endpoints[j].sid
  /\ \A sid \in DOMAIN sessions : endpoints[sessions[sid]].sid = sid
  /\ lastReq.newSid # 0 => lastReq.fresh

\* a handshake has just registered its session next to another live one, after a
\* closure
C4_Witness ==
  /\ lastReq.newSid # 0
  /\ \E sid \in DOMAIN sessions : sid # lastReq.newSid /\ endpoints[sessions[sid]].open
  /\ \E i \in DOMAIN endpoints : ~endpoints[i].open

\* C11: a handshake that is answered with a new session id adds exactly one
\* registry entry, under an id that was not in the registry, leaves the other
\* entries alone and returns the id of the endpoint it created; a later request
\* that bears an id and is served is served by the one endpoint created under
\* that id.
C11_HandshakeRegistersOnce ==
  [][lastReq' # lastReq =>
       /\ lastReq'.newSid # 0 =>
            /\ ~Has(sessions, lastReq'.newSid)
            /\ DOMAIN sessions' = DOMAIN sessions \cup {lastReq'.newSid}
            /\ \A s \in DOMAIN sessions : sessions'[s] = sessions[s]
            /\ lastReq'.routed = sessions'[lastReq'.newSid]
            /\ endpoints'[lastReq'.routed].sid = lastReq'.newSid
       /\ (lastReq'.newSid = 0 /\ lastReq'.routed # 0) =>
            /\ endpoints[lastReq'.routed].sid = lastReq'.sid
            /\ Cardinality({i \in DOMAIN endpoints :
                              endpoints[i].sid = lastReq'.sid}) = 1
     ]_vars

\* the second of two registered sessions has just been served a later request
C11_Witness ==
  /\ lastReq.op = "POST" /\ ~lastReq.handshake /\ lastReq.status = 200
  /\ lastReq.sid = 2 /\ lastReq.routed = sessions[2]
  /\ Cardinality(DOMAIN sessions) = 2

\* C12: a session whose transport has closed has no registry entry (every entry
\* leads to an open endpoint), and an id whose entry was removed on closure is
\* never in the registry again.
C12_ClosureRemovesEntry ==
  /\ \A sid \in DOMAIN sessions : endpoints[sessions[sid]].open
  /\ \A sid \in closedIds : ~Has(sessions, sid)

\* a session was closed by an explicit DELETE while another one stays registered
C12_Witness ==
  /\ lastReq.op = "DELETE" /\ lastReq.routed # 0
  /\ lastReq.sid \in closedIds
  /\ ~endpoints[lastReq.routed].open
  /\ sessions # <<>>

\* C13: no request of a session is still awaiting its child's reply once the
\* session's transport has closed: the closure cancels it or completes it with a
\* failure.
C13_ClosureFailsInFlight ==
  \A r \in inflight : endpoints[r.eid].open

\* C15: a POST handshake that bears the id of a session in the registry is
\* answered with a client error and changes neither the registry nor any endpoint.
C15_ReHandshakeRejected ==
  [][(lastReq' # lastReq /\ lastReq'.op = "POST" /\ lastReq'.handshake
        /\ lastReq'.known)
       => /\ lastReq'.status \in ClientErrors
          /\ sessions' = sessions
          /\ endpoints' = endpoints
    ]_vars

\* C24: in the gateway, the child transport of every session whose entry was
\* removed from the registry is closed, and every step that removes an entry
\* leaves the transport the entry led to closed.
C24_RemovedSessionTornDown ==
  /\ [](variant = "gateway" =>
          \A i \in DOMAIN endpoints :
            endpoints[i].sid \in closedIds => ~endpoints[i].open)
  /\ [][variant = "gateway" =>
          \A sid \in DOMAIN sessions \ DOMAIN sessions' :
            ~endpoints'[sessions[sid]].open]_vars

\* a gateway session was removed when its transport closed, with a request of it
\* still waiting, while a second session stays registered with its child up
C24_Witness ==
  /\ variant = "gateway"
  /\ 1 \in closedIds /\ ~endpoints[1].open
  /\ \E r \in inflight : r.sid = 1
  /\ Has(sessions, 2) /\ endpoints[sessions[2]].open
  /\ lastReq.op = "POST"

C32_ClosedIsTerminal ==
  [][/\ closedIds \subseteq closedIds'
     /\ \A sid \in closedIds' : ~Has(sessions', sid)
     /\ (lastReq' # lastReq /\ lastReq'.newSid # 0) =>
          /\ lastReq'.newSid \notin closedIds'
          /\ lastReq'.sid \in closedIds => lastReq'.newSid # lastReq'.sid
    ]_vars

\* a POST handshake that bore the id of a removed session was answered with a new
\* id, which is now in the registry
C32_Witness ==
  /\ lastReq.op = "POST" /\ lastReq.handshake
  /\ lastReq.sid \in closedIds
  /\ lastReq.newSid # 0 /\ Has(sessions, lastReq.newSid)

\* C35: after a handshake that failed part-way was answered with an error, the
\* registry has no entry under the id generated for the attempted session.
C35_FailedHandshakeLeavesNoEntry ==
  (lastReq.attempted # 0 /\ lastReq.status = 500) => ~Has(sessions, lastReq.attempted)

\* C36: in the gateway, a request that was served by the client of a session
\* named in its X-MCP-Server header the server that session was created for.
C36_ServedByOwnServer ==
  (variant = "gateway" /\ lastReq.op = "POST" /\ lastReq.routed # 0
     /\ lastReq.status = 200)
    => endpoints[lastReq.routed].server = lastReq.server

-----------------------------------------------------------------------------
(* Properties of the sticky path store and of the tools *)

\* C5: the working directory a tool call gets is the resolution of the last
\* non-empty path given under its session key, whatever other keys were given,
\* and the resolution of the default path if that key was never given one.
C5_StickyPath ==
  lastCall.kind # "none" =>
    lastCall.cwd = resolvePath(IF lastProvided[lastCall.key] = NoPath
                               THEN DEFAULT_PROJECT_PATH
                               ELSE lastProvided[lastCall.key])

\* a call without a path runs in the directory its session set earlier, while
\* another session holds a different path
C5_Witness ==
  /\ lastCall.kind # "none" /\ lastCall.noPath
  /\ lastProvided[lastCall.key] # NoPath
  /\ lastCall.cwd = resolvePath(lastProvided[lastCall.key])
  /\ \E k \in Keys : /\ k # lastCall.key
                     /\ lastProvided[k] # NoPath
                     /\ lastProvided[k] # lastProvided[lastCall.key]

\* C9: a tool other than the initialization tool starts the CLI only in a working
\* directory that holds the marker directory, and without the marker it returns
\* an error.
C9_MarkerBeforeCli ==
  lastCall.kind \notin {"none", "init"} =>
    /\ lastCall.spawned => lastCall.hadMarker
    /\ ~lastCall.hadMarker => lastCall.result = "error"

\* C10: a tool call in which the external step failed (non-zero exit, spawn
\* error, timeout) or the precondition failed returns a structured error, no call
\* ever raises, and the session that made the call is still registered when it
\* returns.
C10_FailuresAreStructured ==
  /\ lastCall.result \in {"ok", "error"}
  /\ (lastCall.kind # "none" /\ lastCall.threw)
       => (lastCall.result = "error" /\ lastCall.kept)

\* the CLI failed in a call made right after another failed call of the session
C10_Witness ==
  /\ lastCall.threw /\ lastCall.spawned /\ lastCall.afterThrow
  /\ lastCall.result = "error" /\ lastCall.kept

\* C23: every tool call whose CLI process is running runs it in the directory
\* resolved from the path the call itself supplied, whatever other calls of the
\* same session supplied meanwhile, and the stored path of a session key is the
\* path of the call of that key whose getEffectivePath ran last.
C23_LastWriteWins ==
  /\ \A i \in DOMAIN execs :
       execs[i].provided # NoPath => execs[i].cwd = resolvePath(execs[i].provided)
  /\ \A k \in Keys :
       lastProvided[k] # NoPath => (k \in DOMAIN paths /\ paths[k] = lastProvided[k])

\* two calls of one session run their CLI at the same time in different
\* directories, each in its own; the store holds the path of the later one
C23_Witness ==
  /\ Len(execs) = 2
  /\ execs[1].key = execs[2].key
  /\ execs[1].kind = "cli" /\ execs[2].kind = "cli"
  /\ execs[1].provided # NoPath /\ execs[2].provided # NoPath
  /\ execs[1].cwd # execs[2].cwd
  /\ paths[execs[2].key] = execs[2].provided

\* C33: the store holds no path under the id of a session that was closed.
C33_ClosedSessionHasNoPath ==
  \A sid \in closedIds : sid \notin DOMAIN paths

\* C34: a call that supplies no path and is given a stored path is given one that
\* a call of its own client session supplied, also when the calls' contexts
\* carry no session id.
C34_NoSharedStickyPath ==
  (lastCall.kind # "none" /\ lastCall.noPath /\ lastProvided[lastCall.key] # NoPath)
    => providedBy[lastCall.key] = lastCall.sid

\* C38: after a tool call that supplied a path, the store holds that path under
\* the call's key and the call used its resolution as working directory, also
\* when the call returned an error: a call that failed the marker check spawned
\* nothing, and every caught failure is returned as an error.
C38_PathKeptOnFailure ==
  (lastCall.kind # "none" /\ ~lastCall.noPath) =>
    /\ lastCall.key \in DOMAIN paths
    /\ paths[lastCall.key] = lastProvided[lastCall.key]
    /\ lastCall.cwd = resolvePath(lastProvided[lastCall.key])
    /\ lastCall.threw => lastCall.result = "error"

\* a session initialized the project at one path; its next call gave another
\* path, failed the marker check there, and the store now holds the other path
C38_Witness ==
  /\ marker = {<<"/", "d", "p">>}
  /\ lastCall.afterInit /\ lastCall.kind = "cli"
  /\ ~lastCall.noPath /\ lastCall.threw /\ ~lastCall.spawned
  /\ paths[lastCall.key] = <<"x">>

-----------------------------------------------------------------------------
(* Properties of the invocation lines and of the path resolver *)

\* C17: for an argument value that contains a double quote, the word produced by
\* escapeCmd is read by the shell as one double-quoted word that closes at its
\* last character and whose value is the original value.
C17_EscapeRoundTrip ==
  (cmdTool \in {"init-project", "task_search"} /\ \E i \in DOMAIN val : val[i] = DQ)
    => \A k \in DOMAIN cmd :
         cmd[k].arg => DQRead(cmd[k].text) = [closed |-> TRUE, value |-> val,
                                              rest |-> <<>>]

\* every double quote has a backslash right before it
QuotesEscaped(t) == \A i \in DOMAIN t : t[i] = DQ => (i > 1 /\ t[i - 1] = BS)

\* t without the backslashes that stand right before a double quote
RECURSIVE DropEscapes(_)
DropEscapes(t) ==
  IF t = <<>> THEN <<>>
  ELSE IF Head(t) = BS /\ Len(t) > 1 /\ t[2] = DQ
  THEN <<DQ>> \o DropEscapes(SubSeq(t, 3, Len(t)))
  ELSE <<Head(t)>> \o DropEscapes(Tail(t))

\* C18: in every invocation line, every string argument stands between two
\* double quotes, with a backslash before each double quote of its value.
C18_EveryArgumentQuoted ==
  cmdTool # "none" =>
    \A k \in DOMAIN cmd :
      cmd[k].arg =>
        LET t == cmd[k].text
            inner == SubSeq(t, 2, Len(t) - 1)
        IN /\ Len(t) >= 2 /\ t[1] = DQ /\ t[Len(t)] = DQ
           /\ QuotesEscaped(inner)
           /\ DropEscapes(inner) = val

\* C19: resolving a resolved path again returns it unchanged, whatever host root
\* is configured.
C19_ResolveIdempotent ==
  Len(resolved) = 2 => resolved[2] = resolved[1]

\* C20: each result of the resolver is the container root followed by what comes
\* after the host root in its input if the input starts with the host root, and
\* is the input itself otherwise.
C20_LeadingPrefixReplaced ==
  \A i \in DOMAIN resolved :
    LET p == IF i = 1 THEN inputPath ELSE resolved[i - 1]
    IN resolved[i] = IF startsWith(p, HOST_ROOT)
                     THEN CONTAINER_DATA \o SubSeq(p, Len(HOST_ROOT) + 1, Len(p))
                     ELSE p

\* the host root occurs twice in the input and only the leading one was replaced
C20_Witness ==
  /\ env # <<>> /\ inputPath = env \o env
  /\ resolved # <<>> /\ resolved[1] = CONTAINER_DATA \o env

====
